---------------------------- MODULE Spec2Model ----------------------------
(***************************************************************************)
(* The TMP117 driver (src/tmp117.py) together with the sensor it talks to. *)
(*                                                                         *)
(* The driver is single threaded; every bus transaction of a call is one   *)
(* step, so that the sensor's own steps (a conversion completing) can fall *)
(* between the read and the write of a read-modify-write and between two   *)
(* status polls.                                                           *)
(*                                                                         *)
(* Degrees Celsius are fixed-point numbers: one unit is 1/(128 * SubSteps) *)
(* of a degree, so that values between two raw counts exist and the        *)
(* truncation of the conversion is observable.                             *)
(***************************************************************************)
EXTENDS Integers, Sequences, FiniteSets, TLC

(***************************************************************************)
(* Bounds of the model.                                                    *)
(***************************************************************************)
\* Units of the fixed-point Celsius representation per raw count.
SubSteps == 2
\* How far (in raw counts) the inputs of the conversion reach beyond +-256 C.
Margin == 3
\* Not-ready polls (and their 1 ms sleeps) a call's log keeps; later ones
\* happen but are not appended.
MaxPolls == 2

(***************************************************************************)
(* Program constants.                                                      *)
(***************************************************************************)
DEVICE_ID_VALUE == 279
\* 1 / _TMP117_RESOLUTION: raw counts per degree Celsius.
CountsPerDegree == 128
\* The bound of _scaled_limit, in degrees Celsius.
LimitDegrees == 256
CONTINUOUS_CONVERSION_MODE == 0
ONE_SHOT_MODE == 3
SHUTDOWN_MODE == 1
ALERT_WINDOW == 0
ALERT_HYSTERESIS == 1
\* The signed 16 bit format ">h" of the temperature, limit and offset registers.
Int16Min == -32768
Int16Max == 32767
\* The sensor's power-on state: continuous mode, 1 s cycle (delay code 4),
\* 8x averaging (code 1), window alerts; limits 192 C and -256 C, offset 0.
PowerOnConfig == 544
PowerOnHighLimit == 24576
PowerOnLowLimit == -32768
PowerOnOffset == 0

(***************************************************************************)
(* Bit operations on register words.                                       *)
(***************************************************************************)
\* a & b, bit by bit from the lowest.
BitAndOf[a \in Nat, b \in Nat] ==
    IF a = 0 \/ b = 0 THEN 0
    ELSE (a % 2) * (b % 2) + 2 * BitAndOf[a \div 2, b \div 2]

BitAnd(a, b) == BitAndOf[a, b]

\* a | b, bit by bit from the lowest.
BitOrOf[a \in Nat, b \in Nat] ==
    IF a = 0 THEN b
    ELSE IF b = 0 THEN a
    ELSE (IF a % 2 = 1 \/ b % 2 = 1 THEN 1 ELSE 0) + 2 * BitOrOf[a \div 2, b \div 2]

BitOr(a, b) == BitOrOf[a, b]

\* ~m on a 16 bit register word.
BitNot16(m) == 65535 - m

ShiftLeft(v, n) == v * (2 ^ n)

ShiftRight(v, n) == v \div (2 ^ n)

(***************************************************************************)
(* The bit-field descriptors of the configuration register: lowest bit and *)
(* number of bits.                                                         *)
(***************************************************************************)
FieldNames ==
    { "_alert_status_data_ready", "_eeprom_busy", "_mode",
      "_raw_measurement_delay", "_raw_averaged_measurements",
      "_raw_alert_mode", "_int_active_high", "_data_ready_int_en",
      "_soft_reset" }

Fields ==
    [ f \in FieldNames |->
        CASE f = "_alert_status_data_ready"   -> [lo |-> 13, n |-> 3]
          [] f = "_eeprom_busy"               -> [lo |-> 12, n |-> 1]
          [] f = "_mode"                      -> [lo |-> 10, n |-> 2]
          [] f = "_raw_measurement_delay"     -> [lo |-> 7,  n |-> 3]
          [] f = "_raw_averaged_measurements" -> [lo |-> 5,  n |-> 2]
          [] f = "_raw_alert_mode"            -> [lo |-> 4,  n |-> 1]
          [] f = "_int_active_high"           -> [lo |-> 3,  n |-> 1]
          [] f = "_data_ready_int_en"         -> [lo |-> 2,  n |-> 1]
          [] f = "_soft_reset"                -> [lo |-> 1,  n |-> 1] ]

\* The read-write fields the driver's setters and the sensor share.
RWFieldNames ==
    { "_mode", "_raw_measurement_delay", "_raw_averaged_measurements",
      "_raw_alert_mode", "_int_active_high", "_data_ready_int_en" }

BitMask(f) == ShiftLeft((2 ^ Fields[f].n) - 1, Fields[f].lo)

\* RWBits.__get__ / ROBits.__get__: (reg & mask) >> lowest_bit
BitsGet(reg, f) == ShiftRight(BitAnd(reg, BitMask(f)), Fields[f].lo)

\* RWBits.__set__ on the word it read: (reg & ~mask) | (value << lowest_bit)
BitsSet(reg, f, value) ==
    BitOr(BitAnd(reg, BitNot16(BitMask(f))), ShiftLeft(value, Fields[f].lo))


(***************************************************************************)
(* Unit conversion.                                                        *)
(***************************************************************************)
\* d degrees Celsius as a fixed-point value.
Deg(d) == d * CountsPerDegree * SubSteps

\* raw * _TMP117_RESOLUTION
RawToCelsius(raw) == raw * SubSteps

\* Python's int(x) of the quotient a / b (b > 0): rounds toward zero.
TruncDiv(a, b) == IF a >= 0 THEN a \div b ELSE -((-a) \div b)

\* _scaled_limit(value): the range check, then int(value / _TMP117_RESOLUTION).
ScaledLimitAt255(value) ==
    IF value > Deg(LimitDegrees - 1) \/ value < Deg(-LimitDegrees)
    THEN [err |-> "ValueError", raw |-> 0]
    ELSE [err |-> "none", raw |-> TruncDiv(value, SubSteps)]

ScaledLimit(value) ==
    IF value > Deg(LimitDegrees) \/ value < Deg(-LimitDegrees)
    THEN [err |-> "ValueError", raw |-> 0]
    ELSE [err |-> "none", raw |-> TruncDiv(value, SubSteps)]

FitsInt16(raw) == Int16Min <= raw /\ raw <= Int16Max

\* What a pack of ">h" that does not check the range stores.
WrapInt16(raw) == ((raw - Int16Min) % 65536) + Int16Min

(***************************************************************************)
(* Status decoding.                                                        *)
(***************************************************************************)
\* _read_status on the 3 bit field: (high_alert, low_alert, data_ready).
ReadStatusSwapped(status_flags) ==
    << BitAnd(2, status_flags) > 0,
       BitAnd(4, status_flags) > 0,
       BitAnd(1, status_flags) > 0 >>

ReadStatus(status_flags) ==
    << BitAnd(4, status_flags) > 0,
       BitAnd(2, status_flags) > 0,
       BitAnd(1, status_flags) > 0 >>

(***************************************************************************)
(* The sensor's side of the bus.                                           *)
(***************************************************************************)
\* The bits of the configuration register a bus write can change.
RWMask == BitOr(BitOr(BitOr(BitMask("_mode"), BitMask("_raw_measurement_delay")),
                      BitOr(BitMask("_raw_averaged_measurements"),
                            BitMask("_raw_alert_mode"))),
                BitOr(BitMask("_int_active_high"), BitMask("_data_ready_int_en")))

Converting(cfg) == BitsGet(cfg, "_mode") # SHUTDOWN_MODE

\* The register after a read of it: data-ready clears; the alert flags clear
\* in window mode and stay in hysteresis mode.
ConfigAfterRead(cfg) ==
    LET s == BitsGet(cfg, "_alert_status_data_ready")
        kept == IF BitsGet(cfg, "_raw_alert_mode") = ALERT_WINDOW
                THEN 0 ELSE BitAnd(s, 6)
    IN  BitsSet(cfg, "_alert_status_data_ready", kept)

SoftResetRequested(word) == BitsGet(word, "_soft_reset") = 1

\* The register after a write of word: a soft reset restores the power-on
\* state, otherwise the read-write fields take the written bits and the
\* read-only bits stay.
ConfigAfterWrite(cfg, word) ==
    IF SoftResetRequested(word) THEN PowerOnConfig
    ELSE BitOr(BitAnd(cfg, BitNot16(RWMask)), BitAnd(word, RWMask))

PowerOnLimits ==
    [ high_limit |-> PowerOnHighLimit,
      low_limit |-> PowerOnLowLimit,
      temperature_offset |-> PowerOnOffset ]

\* Raw temperatures the sensor may measure.
Temps == {0, CountsPerDegree}

(***************************************************************************)
(* State.                                                                  *)
(***************************************************************************)
VARIABLES
    part_id,   \* sensor: device ID register
    config,    \* sensor: configuration register (16 bit word)
    temp,      \* sensor: temperature result register (raw count)
    lim,       \* sensor: high limit, low limit and offset registers
    fresh,     \* ghost: the temperature register holds a conversion that
               \* completed after the last write of the mode field
    pc,        \* driver: position ("new", "failed", "idle", or inside a call)
    op,        \* driver: the call in progress, or the last one when idle
    arg,       \* driver: that call's argument
    pend,      \* driver: the bit field and value of the write in progress
    buf,       \* driver: the register word the write in progress read
    ret,       \* driver: result of the last call
    sampled,   \* ghost: fresh, as it was when the last wait read the temperature
    log        \* the bus transactions and sleeps of the call in op

vars == << part_id, config, temp, lim, fresh, pc, op, arg, pend, buf, ret,
           sampled, log >>

sensor == << part_id, config, temp, lim >>

NoPend == [f |-> "none", v |-> 0]

NoRet == [kind |-> "none", val |-> << >>]

Ok(val) == [kind |-> "ok", val |-> val]

Raised(kind) == [kind |-> kind, val |-> << >>]

Count(l, e) == Cardinality({ i \in 1..Len(l) : l[i] = e })

\* Appends e unless the log already keeps cap of them.
AppendCapped(l, e, cap) == IF Count(l, e) < cap THEN Append(l, e) ELSE l

RdConfig == << "rd", "CONFIGURATION" >>
RdId == << "rd", "DEVICE_ID" >>
RdTemp == << "rd", "TEMP_RESULT" >>
PollReady == << "poll", "ready" >>
PollNotReady == << "poll", "not_ready" >>
Sleep1ms == << "sleep", "1ms" >>
Sleep1s == << "sleep", "1s" >>
Wr(f, v) == << "wr", f, v >>
Rd(f) == << "rd", f >>


(***************************************************************************)
(* Inputs of the calls.                                                    *)
(***************************************************************************)
ModeInputs == {CONTINUOUS_CONVERSION_MODE, ONE_SHOT_MODE, SHUTDOWN_MODE}
AveragingInputs == -1 .. 4
DelayInputs == -1 .. 8
AlertModeInputs == -1 .. 2
LimitNames == { "high_limit", "low_limit", "temperature_offset" }

(***************************************************************************)
(* Building blocks of the calls.                                           *)
(***************************************************************************)
\* A call begins: it becomes the call in op with an empty log.
Enter(name, a) ==
    /\ pc = "idle"
    /\ op' = name
    /\ arg' = a

\* A call ends with a result; the driver is idle again.
Return(r) ==
    /\ pc' = "idle"
    /\ ret' = r
    /\ pend' = NoPend
    /\ buf' = 0

\* The read half of RWBits.__set__ / RWBit.__set__ for field f and value v,
\* appended to log l.
SetBitsRead(f, v, l) ==
    /\ buf' = config
    /\ config' = ConfigAfterRead(config)
    /\ pend' = [f |-> f, v |-> v]
    /\ log' = Append(l, RdConfig)
    /\ pc' = "write"
    /\ ret' = NoRet
    /\ UNCHANGED << part_id, temp, lim, fresh, sampled >>

\* The write half: the word read, with the field replaced, goes to the sensor.
SetBitsWrite ==
    LET word == BitsSet(buf, pend.f, pend.v) IN
    /\ config' = ConfigAfterWrite(config, word)
    /\ lim' = IF SoftResetRequested(word) THEN PowerOnLimits ELSE lim
    /\ log' = Append(log, Wr(pend.f, pend.v))
    /\ fresh' = IF pend.f = "_mode" \/ SoftResetRequested(word) THEN FALSE ELSE fresh
    /\ UNCHANGED << part_id, temp, sampled, op, arg >>

\* A getter of a bit field: one read of the configuration register.
GetBits(name, f) ==
    /\ Enter(name, 0)
    /\ log' = << RdConfig >>
    /\ config' = ConfigAfterRead(config)
    /\ Return(Ok(<< BitsGet(config, f) >>))
    /\ UNCHANGED << part_id, temp, lim, fresh, sampled >>

\* A setter that rejects its argument: no bus transaction.
Reject(name, a) ==
    /\ Enter(name, a)
    /\ log' = << >>
    /\ Return(Raised("ValueError"))
    /\ UNCHANGED << sensor, fresh, sampled >>

(***************************************************************************)
(* The sensor.                                                             *)
(***************************************************************************)
\* The status a completed conversion may leave: data-ready set, the alert
\* flags as the comparison with the limits comes out (the low flag only in
\* window mode).
ConversionStatus(cfg) ==
    IF BitsGet(cfg, "_raw_alert_mode") = ALERT_HYSTERESIS
    THEN {1, 5}
    ELSE {1, 3, 5, 7}

\* The register after a conversion that leaves status s: a one-shot
\* conversion leaves the sensor in shutdown.
ConfigAfterConversion(cfg, s) ==
    LET c == BitsSet(cfg, "_alert_status_data_ready", s)
    IN  IF BitsGet(cfg, "_mode") = ONE_SHOT_MODE
        THEN BitsSet(c, "_mode", SHUTDOWN_MODE)
        ELSE c

\* A conversion completes.
Convert ==
    /\ Converting(config)
    /\ \E t \in Temps, s \in ConversionStatus(config) :
        /\ temp' = t
        /\ config' = ConfigAfterConversion(config, s)
    /\ fresh' = TRUE
    /\ UNCHANGED << part_id, lim, pc, op, arg, pend, buf, ret, sampled, log >>

(***************************************************************************)
(* Construction, reset, initialize.                                        *)
(***************************************************************************)
\* __init__ up to the identity check: one read of the device ID; a wrong ID
\* raises and the object never exists.
InitResetFirst ==
    /\ pc = "new"
    /\ op' = "__init__"
    /\ arg' = 0
    /\ IF part_id # DEVICE_ID_VALUE
       THEN /\ pc' = "failed"
            /\ ret' = Raised("AttributeError")
            /\ log' = << RdId, RdConfig, Wr("_soft_reset", 1) >>
            /\ config' = PowerOnConfig
            /\ lim' = PowerOnLimits
            /\ UNCHANGED << part_id, temp, fresh, pend, buf, sampled >>
       ELSE SetBitsRead("_soft_reset", 1, << RdId >>)

__init__ ==
    /\ pc = "new"
    /\ op' = "__init__"
    /\ arg' = 0
    /\ IF part_id # DEVICE_ID_VALUE
       THEN /\ pc' = "failed"
            /\ ret' = Raised("AttributeError")
            /\ log' = << RdId >>
            /\ UNCHANGED << sensor, fresh, pend, buf, sampled >>
       ELSE \* self.reset(): the read half of the soft-reset write
            SetBitsRead("_soft_reset", 1, << RdId >>)

\* reset(), called on an existing object.
reset ==
    /\ Enter("reset", 0)
    /\ SetBitsRead("_soft_reset", 1, << >>)

\* The write of the soft-reset bit; __init__ goes on to initialize().
soft_reset_write ==
    /\ pc = "write"
    /\ pend.f = "_soft_reset"
    /\ SetBitsWrite
    /\ IF op = "__init__"
       THEN /\ pc' = "initialize"
            /\ pend' = NoPend
            /\ buf' = 0
            /\ ret' = ret
       ELSE Return(Ok(<< >>))

\* initialize() as __init__ calls it.
InitInitialize ==
    /\ pc = "initialize"
    /\ SetBitsRead("_mode", CONTINUOUS_CONVERSION_MODE, log)
    /\ UNCHANGED << op, arg >>

\* initialize(), called on an existing object.
initialize ==
    /\ Enter("initialize", 0)
    /\ SetBitsRead("_mode", CONTINUOUS_CONVERSION_MODE, << >>)


(***************************************************************************)
(* _set_mode_and_wait_for_measurement.                                     *)
(***************************************************************************)
\* self._mode = mode, the write half; the poll follows.
mode_write ==
    /\ pc = "write"
    /\ pend.f = "_mode"
    /\ SetBitsWrite
    /\ pc' = "poll"
    /\ UNCHANGED << pend, buf, ret >>

\* self._read_status() once, with no loop on its result.
PollOnce ==
    /\ pc = "poll"
    /\ pc' = "read"
    /\ log' = Append(log, IF ReadStatus(BitsGet(config, "_alert_status_data_ready"))[3]
                          THEN PollReady ELSE PollNotReady)
    /\ config' = ConfigAfterRead(config)
    /\ UNCHANGED << part_id, temp, lim, fresh, op, arg, pend, buf, ret, sampled >>

\* while not self._read_status()[2]: one read of the status field
poll ==
    /\ pc = "poll"
    /\ LET st == ReadStatus(BitsGet(config, "_alert_status_data_ready")) IN
        IF st[3]
        THEN /\ pc' = "read"
             /\ log' = Append(log, PollReady)
        ELSE /\ pc' = "sleep"
             /\ log' = AppendCapped(log, PollNotReady, MaxPolls)
    /\ config' = ConfigAfterRead(config)
    /\ UNCHANGED << part_id, temp, lim, fresh, op, arg, pend, buf, ret, sampled >>

\* time.sleep(0.001), then the next poll
poll_sleep ==
    /\ pc = "sleep"
    /\ pc' = "poll"
    /\ log' = AppendCapped(log, Sleep1ms, MaxPolls)
    /\ UNCHANGED << sensor, fresh, op, arg, pend, buf, ret, sampled >>

\* A read of the temperature register; the sensor may clear data-ready on it.
TempRead ==
    /\ \E clears \in BOOLEAN :
         config' = IF clears
                   THEN BitsSet(config, "_alert_status_data_ready",
                                BitAnd(BitsGet(config, "_alert_status_data_ready"), 6))
                   ELSE config
    /\ UNCHANGED << part_id, temp, lim, fresh >>

\* return self._raw_temperature * _TMP117_RESOLUTION, and what the caller
\* does with it.
ReadTemperatureNoSleep ==
    /\ pc = "read"
    /\ TempRead
    /\ log' = Append(log, RdTemp)
    /\ sampled' = fresh
    /\ IF op = "take_single_measurement"
       THEN Return(Ok(<< RawToCelsius(temp) >>))
       ELSE Return(Ok(<< >>))
    /\ UNCHANGED << op, arg >>

read_temperature ==
    /\ pc = "read"
    /\ TempRead
    /\ log' = Append(log, RdTemp)
    /\ sampled' = fresh
    /\ CASE op \in {"__init__", "initialize"} ->
                /\ pc' = "sleep_1s"
                /\ UNCHANGED << pend, buf, ret >>
         [] op = "take_single_measurement" ->
                Return(Ok(<< RawToCelsius(temp) >>))
         [] OTHER ->
                Return(Ok(<< >>))
    /\ UNCHANGED << op, arg >>

\* initialize(): time.sleep(1), then back to the caller.
initialize_sleep ==
    /\ pc = "sleep_1s"
    /\ log' = Append(log, Sleep1s)
    /\ Return(Ok(<< >>))
    /\ UNCHANGED << sensor, fresh, op, arg, sampled >>

\* measurement_mode = value
measurement_mode_set(value) ==
    /\ Enter("measurement_mode.setter", value)
    /\ SetBitsRead("_mode", value, << >>)

measurement_mode_get ==
    GetBits("measurement_mode", "_mode")

take_single_measurement ==
    /\ Enter("take_single_measurement", 0)
    /\ SetBitsRead("_mode", ONE_SHOT_MODE, << >>)

\* The temperature property: one read of the temperature register.
temperature ==
    /\ Enter("temperature", 0)
    /\ TempRead
    /\ log' = << RdTemp >>
    /\ Return(Ok(<< RawToCelsius(temp) >>))
    /\ UNCHANGED sampled

(***************************************************************************)
(* alert_status.                                                           *)
(***************************************************************************)
alert_status ==
    /\ Enter("alert_status", 0)
    /\ log' = << RdConfig >>
    /\ config' = ConfigAfterRead(config)
    /\ LET st == ReadStatus(BitsGet(config, "_alert_status_data_ready"))
       IN  Return(Ok(<< st[1], st[2] >>))
    /\ UNCHANGED << part_id, temp, lim, fresh, sampled >>


(***************************************************************************)
(* The validated bit-field properties.                                     *)
(***************************************************************************)
\* The write half of a setter of one of these fields; the setter returns.
field_write ==
    /\ pc = "write"
    /\ pend.f \notin {"_soft_reset", "_mode"}
    /\ SetBitsWrite
    /\ Return(Ok(<< >>))

\* A setter that validates only after the read half of the write.
SetValidatedLate(name, f, allowed, value) ==
    IF value \notin allowed
    THEN /\ Enter(name, value)
         /\ log' = << RdConfig >>
         /\ config' = ConfigAfterRead(config)
         /\ Return(Raised("ValueError"))
         /\ UNCHANGED << part_id, temp, lim, fresh, sampled >>
    ELSE /\ Enter(name, value)
         /\ SetBitsRead(f, value, << >>)

\* if value not in allowed: raise ValueError; self.<f> = value
SetValidated(name, f, allowed, value) ==
    IF value \notin allowed
    THEN Reject(name, value)
    ELSE /\ Enter(name, value)
         /\ SetBitsRead(f, value, << >>)

AveragedMeasurementsSetsDelay(value) ==
    SetValidated("averaged_measurements.setter", "_raw_measurement_delay",
                 {0, 1, 2, 3}, value)

averaged_measurements_set(value) ==
    SetValidated("averaged_measurements.setter", "_raw_averaged_measurements",
                 {0, 1, 2, 3}, value)

averaged_measurements_get ==
    GetBits("averaged_measurements", "_raw_averaged_measurements")

measurement_delay_set(value) ==
    SetValidated("measurement_delay.setter", "_raw_measurement_delay",
                 {0, 1, 2, 3, 4, 5, 6, 7}, value)

measurement_delay_get ==
    GetBits("measurement_delay", "_raw_measurement_delay")

alert_mode_set(value) ==
    SetValidated("alert_mode.setter", "_raw_alert_mode", {0, 1}, value)

alert_mode_get ==
    GetBits("alert_mode", "_raw_alert_mode")

(***************************************************************************)
(* Limits and offset.                                                      *)
(***************************************************************************)
SetterName ==
    [ high_limit |-> "high_limit.setter",
      low_limit |-> "low_limit.setter",
      temperature_offset |-> "temperature_offset.setter" ]

\* self._raw_<reg> = self._scaled_limit(value): validation, then one write of
\* the packed count.  A count outside the signed 16 bit format either makes
\* the pack raise (nothing is written) or is stored wrapped, as the
\* platform's struct does.
LimitSet(reg, value) ==
    LET s == ScaledLimit(value) IN
    IF s.err # "none"
    THEN Reject(SetterName[reg], value)
    ELSE /\ Enter(SetterName[reg], value)
         /\ IF FitsInt16(s.raw)
            THEN /\ lim' = [lim EXCEPT ![reg] = s.raw]
                 /\ log' = << Wr(reg, s.raw) >>
                 /\ Return(Ok(<< >>))
            ELSE \/ /\ lim' = lim
                    /\ log' = << >>
                    /\ Return(Raised("OverflowError"))
                 \/ /\ lim' = [lim EXCEPT ![reg] = WrapInt16(s.raw)]
                    /\ log' = << Wr(reg, WrapInt16(s.raw)) >>
                    /\ Return(Ok(<< >>))
         /\ UNCHANGED << part_id, config, temp, fresh, sampled >>

\* return self._raw_<reg> * _TMP117_RESOLUTION: one read of the register
LimitGet(reg) ==
    /\ Enter(reg, 0)
    /\ log' = << Rd(reg) >>
    /\ Return(Ok(<< RawToCelsius(lim[reg]) >>))
    /\ UNCHANGED << sensor, fresh, sampled >>

high_limit_set(value) == LimitSet("high_limit", value)

high_limit_get == LimitGet("high_limit")

low_limit_set(value) == LimitSet("low_limit", value)

low_limit_get == LimitGet("low_limit")

temperature_offset_set(value) == LimitSet("temperature_offset", value)

temperature_offset_get == LimitGet("temperature_offset")

(***************************************************************************)
(* The driver and its sensor, from power-up.                               *)
(***************************************************************************)
PartIds == { DEVICE_ID_VALUE, DEVICE_ID_VALUE - 1, 0 }

\* Configurations an earlier session may have left in the sensor.
InitConfigs ==
    { PowerOnConfig,
      BitsSet(BitsSet(PowerOnConfig, "_mode", SHUTDOWN_MODE),
              "_alert_status_data_ready", 5),
      BitsSet(BitsSet(PowerOnConfig, "_mode", ONE_SHOT_MODE),
              "_int_active_high", 1) }

Init ==
    /\ part_id \in PartIds
    /\ config \in InitConfigs
    /\ temp \in Temps
    /\ lim = PowerOnLimits
    /\ fresh = FALSE
    /\ pc = "new"
    /\ op = "none"
    /\ arg = 0
    /\ pend = NoPend
    /\ buf = 0
    /\ ret = NoRet
    /\ sampled = FALSE
    /\ log = << >>

\* Construction and the measurement protocol.
Next ==
    \/ Convert
    \/ __init__
    \/ reset
    \/ soft_reset_write
    \/ InitInitialize
    \/ initialize
    \/ mode_write
    \/ poll
    \/ poll_sleep
    \/ read_temperature
    \/ initialize_sleep
    \/ \E value \in ModeInputs : measurement_mode_set(value)
    \/ measurement_mode_get
    \/ take_single_measurement
    \/ temperature
    \/ alert_status

Spec == Init /\ [][Next]_vars

\* The driver goes on with the call it is in, and the sensor completes the
\* conversion it is in.
DriverStep ==
    \/ soft_reset_write
    \/ InitInitialize
    \/ mode_write
    \/ poll
    \/ poll_sleep
    \/ read_temperature
    \/ initialize_sleep

FairSpec == Spec /\ WF_vars(DriverStep) /\ WF_vars(Convert)

(***************************************************************************)
(* The configuration properties, on a constructed driver.                  *)
(***************************************************************************)
\* The state __init__ returns in when the first poll finds data-ready.
InitConstructed ==
    /\ part_id = DEVICE_ID_VALUE
    /\ config = PowerOnConfig
    /\ temp \in Temps
    /\ lim = PowerOnLimits
    /\ fresh = TRUE
    /\ pc = "idle"
    /\ op = "__init__"
    /\ arg = 0
    /\ pend = NoPend
    /\ buf = 0
    /\ ret = Ok(<< >>)
    /\ sampled = TRUE
    /\ log = << RdId, RdConfig, Wr("_soft_reset", 1), RdConfig,
                Wr("_mode", CONTINUOUS_CONVERSION_MODE), PollReady, RdTemp,
                Sleep1s >>

NextCfg ==
    \/ Convert
    \/ take_single_measurement
    \/ mode_write
    \/ poll
    \/ poll_sleep
    \/ read_temperature
    \/ field_write
    \/ \E value \in AveragingInputs : averaged_measurements_set(value)
    \/ averaged_measurements_get
    \/ \E value \in DelayInputs : measurement_delay_set(value)
    \/ measurement_delay_get
    \/ \E value \in AlertModeInputs : alert_mode_set(value)
    \/ alert_mode_get

SpecCfg == InitConstructed /\ [][NextCfg]_vars

(***************************************************************************)
(* One setter call, and the getter after it, for every argument.           *)
(***************************************************************************)
\* rawToCelsius of every raw count, and the values around the two ends of
\* the range and around zero that lie between raw counts.
ConvInputs ==
    { RawToCelsius(r) : r \in Int16Min .. Int16Max }
    \cup { Deg(-LimitDegrees) + d : d \in -(Margin * SubSteps) .. (Margin * SubSteps) }
    \cup { Deg(LimitDegrees) + d : d \in -(Margin * SubSteps) .. (Margin * SubSteps) }
    \cup { d : d \in -(Margin * SubSteps) .. (Margin * SubSteps) }

\* Arguments of the bit-field setters: every code and its neighbours.
CodeInputs == -1 .. 8

InitConv ==
    /\ InitConstructed
    /\ temp = 0

FirstCall == op = "__init__"

NextConv ==
    \/ FirstCall /\ \E value \in ConvInputs : high_limit_set(value)
    \/ FirstCall /\ \E value \in ConvInputs : low_limit_set(value)
    \/ FirstCall /\ \E value \in ConvInputs : temperature_offset_set(value)
    \/ FirstCall /\ \E value \in CodeInputs : averaged_measurements_set(value)
    \/ FirstCall /\ \E value \in CodeInputs : measurement_delay_set(value)
    \/ FirstCall /\ \E value \in CodeInputs : alert_mode_set(value)
    \/ field_write
    \/ op = "high_limit.setter" /\ high_limit_get
    \/ op = "low_limit.setter" /\ low_limit_get
    \/ op = "temperature_offset.setter" /\ temperature_offset_get

SpecConv == InitConv /\ [][NextConv]_vars

(***************************************************************************)
(* Claims.                                                                 *)
(***************************************************************************)
InModeSetter == op = "measurement_mode.setter" /\ pc # "idle"

\* C1: a call of the measurement_mode setter with CONTINUOUS, ONE_SHOT or
\* SHUTDOWN eventually returns, given that the sensor completes the
\* conversion it is in and that a read of the configuration register clears
\* data-ready.
C1_ModeSetterReturns == InModeSetter ~> (pc = "idle")

\* The same for the two converting modes alone.
C1_ConvertingModeSetterReturns ==
    (InModeSetter /\ arg # SHUTDOWN_MODE) ~> (pc = "idle")

\* The setter is polling a sensor in shutdown with no data-ready pending:
\* nothing but the poll and its sleep can happen from here.
C1_StuckInShutdown ==
    /\ InModeSetter
    /\ arg = SHUTDOWN_MODE
    /\ pc = "poll"
    /\ ~Converting(config)
    /\ BitsGet(config, "_alert_status_data_ready") % 2 = 0

Returned(name) == op = name /\ pc = "idle"

LimitSetters ==
    { "high_limit.setter", "low_limit.setter", "temperature_offset.setter" }

\* -256 <= v < 256 degrees
InLimitRange(v) == Deg(-LimitDegrees) <= v /\ v < Deg(LimitDegrees)

\* C2: a value written through a limit or offset setter is converted when
\* -256 <= v < 256 and is rejected with a ValueError when v >= 256 or
\* v < -256; v = 256 is rejected.
C2_RangeChecked ==
    (op \in LimitSetters /\ pc = "idle") =>
        IF InLimitRange(arg) THEN ret.kind = "ok" ELSE ret.kind = "ValueError"

\* Where an event first occurs in a log (0: nowhere).
FirstIndex(l, e) ==
    IF \E i \in 1 .. Len(l) : l[i] = e
    THEN CHOOSE i \in 1 .. Len(l) : l[i] = e /\ \A j \in 1 .. (i - 1) : l[j] # e
    ELSE 0

WrReset == Wr("_soft_reset", 1)
WrContinuous == Wr("_mode", CONTINUOUS_CONVERSION_MODE)

\* The log of a finished wait from index i on: not-ready polls and their
\* sleeps, the ready poll, the temperature read, the 1 s sleep.
WaitThenSleep(l, i) ==
    /\ Len(l) >= i + 2
    /\ l[Len(l)] = Sleep1s
    /\ l[Len(l) - 1] = RdTemp
    /\ l[Len(l) - 2] = PollReady
    /\ \A j \in i .. (Len(l) - 3) : l[j] \in {PollNotReady, Sleep1ms}

\* C3, as claimed: every call of initialize() writes the soft-reset bit
\* before it writes the mode field.
C3_InitializeResetsFirst ==
    (op = "initialize" /\ FirstIndex(log, WrContinuous) > 0) =>
        /\ FirstIndex(log, WrReset) > 0
        /\ FirstIndex(log, WrReset) < FirstIndex(log, WrContinuous)

\* C3, amended: a call of initialize() makes no soft-reset write; it writes
\* CONTINUOUS into the mode field, polls until data-ready, reads the
\* temperature and sleeps 1 s before it returns.  The soft-reset write that
\* precedes the mode write is __init__'s, which calls reset() and then
\* initialize().
C3_InitializeSequence ==
    /\ Returned("initialize") =>
        /\ Len(log) >= 2
        /\ log[1] = RdConfig
        /\ log[2] = WrContinuous
        /\ WaitThenSleep(log, 3)
        /\ \A i \in 1 .. Len(log) : log[i] # WrReset
    /\ Returned("__init__") =>
        /\ Len(log) >= 5
        /\ log[1] = RdId
        /\ log[2] = RdConfig
        /\ log[3] = WrReset
        /\ log[4] = RdConfig
        /\ log[5] = WrContinuous
        /\ WaitThenSleep(log, 6)

\* initialize() returned after at least one poll that found no data.
C3_Witness ==
    /\ Returned("initialize")
    /\ \E i \in 1 .. Len(log) : log[i] = PollNotReady

\* C4: with a device ID other than 0x0117 construction fails with the
\* identification error, no object exists (no call is ever made on it), and
\* the ID read is the only bus transaction: no soft-reset write, no mode
\* write, no status poll, no temperature read.
C4_WrongIdStopsConstruction ==
    part_id # DEVICE_ID_VALUE =>
        /\ pc \in {"new", "failed"}
        /\ pc = "new" => log = << >>
        /\ pc = "failed" =>
            /\ op = "__init__"
            /\ ret.kind = "AttributeError"
            /\ log = << RdId >>

C4_Witness == pc = "failed" /\ part_id = DEVICE_ID_VALUE - 1

\* C5: the temperature take_single_measurement() returns comes from a
\* conversion that completed after the call wrote ONE_SHOT into the mode
\* field.
C5_ReturnsTriggeredConversion ==
    Returned("take_single_measurement") => sampled

SensorUnchanged ==
    /\ part_id' = part_id
    /\ config' = config
    /\ temp' = temp
    /\ lim' = lim

\* C6: a setter that rejects its argument with a ValueError does so before
\* any bus transaction of the call: the call's log is empty and every
\* register of the sensor holds what it held before the call.
C6_RejectedBeforeBus ==
    [][ (pc = "idle" /\ op' # op /\ pc' = "idle" /\ ret'.kind = "ValueError")
            => (log' = << >> /\ SensorUnchanged) ]_vars

\* measurement_delay = 8 was rejected.
C6_Witness ==
    /\ Returned("measurement_delay.setter")
    /\ arg = 8
    /\ ret.kind = "ValueError"

ValidatedFields ==
    { "_mode", "_raw_measurement_delay", "_raw_averaged_measurements",
      "_raw_alert_mode" }

\* The write half of a setter of one of the four fields happens in this step.
FieldWriteStep ==
    /\ pc = "write"
    /\ pend.f \in ValidatedFields
    /\ pc' # "write"

\* C7: the write of one of the fields mode, measurement_delay,
\* averaged_measurements, alert_mode leaves every other read-write field of
\* the configuration register at the value the sensor holds for it at the
\* moment of the write.
C7_WriteKeepsOtherFields ==
    [][ FieldWriteStep =>
            \A f \in RWFieldNames \ {pend.f} :
                BitsGet(config', f) = BitsGet(config, f) ]_vars

\* The same, for the writes whose read half did not see the sensor in
\* one-shot mode.
C7_KeepsOtherFieldsOutsideOneShot ==
    [][ (FieldWriteStep /\ BitsGet(buf, "_mode") # ONE_SHOT_MODE) =>
            \A f \in RWFieldNames \ {pend.f} :
                BitsGet(config', f) = BitsGet(config, f) ]_vars

\* A getter is the call right after a successful call of its setter.
GetAfterSet(getter, setter) ==
    /\ Returned(setter)
    /\ ret.kind = "ok"
    /\ op' = getter
    /\ pc' = "idle"

StatusOf(cfg) == (cfg \div 8192) % 8

\* C9: one call of alert_status reads the configuration register once and
\* returns high_alert = bit 0b100 and low_alert = bit 0b010 of the status
\* that read saw; _read_status reports data_ready = bit 0b001, which is
\* what ends the poll.
C9_StatusDecoded ==
    [][ /\ alert_status =>
            /\ log' = << RdConfig >>
            /\ ret' = Ok(<< StatusOf(config) \in {4, 5, 6, 7},
                            StatusOf(config) \in {2, 3, 6, 7} >>)
        /\ (pc = "poll" /\ pc' # "poll") =>
            (pc' = "read" <=> StatusOf(config) \in {1, 3, 5, 7})
        /\ ReadStatus(5) = << TRUE, FALSE, TRUE >>
        /\ ReadStatus(0) = << FALSE, FALSE, FALSE >> ]_vars

\* alert_status returned (high, not low) with the sensor still holding
\* nothing to read: the flags came from the one read.
C9_Witness ==
    /\ Returned("alert_status")
    /\ ret = Ok(<< TRUE, FALSE >>)
    /\ StatusOf(config) = 0

\* v is rawToCelsius of a signed 16 bit count.
OnRawGrid(v) ==
    /\ v % SubSteps = 0
    /\ Int16Min * SubSteps <= v
    /\ v <= Int16Max * SubSteps

LimitOf(setter) ==
    CASE setter = "high_limit.setter" -> "high_limit"
      [] setter = "low_limit.setter" -> "low_limit"
      [] setter = "temperature_offset.setter" -> "temperature_offset"

\* C10: for every signed 16 bit count r, writing r / 128 degrees through a
\* limit or offset setter is accepted and stores exactly r, and the getter
\* called next returns the same Celsius value.
C10_RoundTrip ==
    [][ /\ (op' \in LimitSetters /\ pc' = "idle" /\ OnRawGrid(arg')) =>
            /\ ret'.kind = "ok"
            /\ lim'[LimitOf(op')] * SubSteps = arg'
        /\ \A s \in LimitSetters :
            (GetAfterSet(LimitOf(s), s) /\ OnRawGrid(arg)) => ret' = Ok(<< arg >>) ]_vars

\* The high limit reads back 32767 counts, the largest, which only a set
\* can have stored.
C10_Witness ==
    /\ Returned("high_limit")
    /\ ret = Ok(<< Int16Max * SubSteps >>)

(***************************************************************************)
(* C11: the order of bus transactions in _set_mode_and_wait_for_measurement. *)
(***************************************************************************)
\* The calls that run _set_mode_and_wait_for_measurement.
WaitingCalls ==
    { "__init__", "initialize", "take_single_measurement",
      "measurement_mode.setter" }

StatusReads == { PollReady, PollNotReady }

IsModeWrite(e) == Len(e) = 3 /\ e[1] = "wr" /\ e[2] = "_mode"

DataReady(cfg) == ReadStatus(BitsGet(cfg, "_alert_status_data_ready"))[3]

\* What the log of a waiting call shows at any moment: a mode write before
\* every status read, at most one temperature read, and that one directly
\* after the status read that saw data-ready, with nothing but the 1 s
\* sleep of initialize() behind it.
WaitLogInOrder(l) ==
    /\ \A i \in 1 .. Len(l) :
        l[i] \in StatusReads => \E j \in 1 .. (i - 1) : IsModeWrite(l[j])
    /\ Count(l, RdTemp) <= 1
    /\ Count(l, PollReady) <= 1
    /\ \A i \in 1 .. Len(l) :
        l[i] = RdTemp =>
            /\ i > 1
            /\ l[i - 1] = PollReady
            /\ \A j \in (i + 1) .. Len(l) : l[j] = Sleep1s

\* C11: in every execution of _set_mode_and_wait_for_measurement the mode
\* field is written before the first status read; a status read that sees
\* data-ready = 0 is followed by the 1 ms sleep and another status read, never
\* by a return; the temperature register is read exactly once, directly
\* after the status read that saw data-ready = 1, and no status read
\* follows it.
C11_WaitProtocol ==
    /\ [](op \in WaitingCalls => WaitLogInOrder(log))
    /\ [](Returned("take_single_measurement") \/ Returned("initialize")
            \/ Returned("measurement_mode.setter") \/ Returned("__init__")
          => Count(log, RdTemp) = 1)
    /\ [][ /\ (pc' = "poll" /\ pc # "poll") =>
                \/ pc = "sleep"
                \/ /\ pc = "write"
                   /\ log' = Append(log, Wr("_mode", pend.v))
           /\ (pc = "poll" /\ pc' # "poll") =>
                IF DataReady(config)
                THEN pc' = "read" /\ log' = Append(log, PollReady)
                ELSE pc' = "sleep"
           /\ (pc = "sleep" /\ pc' # "sleep") => pc' = "poll"
           /\ (pc = "read" /\ pc' # "read") =>
                /\ pc' \in {"idle", "sleep_1s"}
                /\ log' = Append(log, RdTemp)
           /\ (pc = "sleep_1s" /\ pc' # "sleep_1s") => pc' = "idle" ]_vars

\* take_single_measurement returned after a status read that saw
\* data-ready = 0, the sleep, the status read that saw 1 and the one
\* temperature read.
C11_Witness ==
    /\ Returned("take_single_measurement")
    /\ Len(log) = 6
    /\ log[3] = PollNotReady
    /\ log[4] = Sleep1ms
    /\ log[5] = PollReady
    /\ log[6] = RdTemp

(***************************************************************************)
(* C12: who consumes the self-clearing status bits.                        *)
(***************************************************************************)
\* Every status bit set in word a is set in word b.
StatusKept(a, b) == BitAnd(StatusOf(a), StatusOf(b)) = StatusOf(a)

\* The alert bits of the status field: high (0b100) and low (0b010).
AlertBits == {4, 2}

HasBit(cfg, b) == BitAnd(StatusOf(cfg), b) > 0

\* The step is one half of the read-modify-write of a configuration field:
\* the read half leaves the driver at "write", the write half starts there.
SetFieldStep == (pc' = "write") # (pc = "write")

\* C12: the self-clearing status bits are consumed only by the readiness
\* poll and by alert_status: no half of a set of mode, measurement_delay,
\* averaged_measurements, alert_mode or soft-reset clears a pending status
\* bit, and an alert bit the sensor raised stays set through every step of
\* the driver except the alert_status call that returns it.
C12_StatusConsumedOnlyByStatusReads ==
    [][ /\ SetFieldStep => StatusKept(config, config')
        /\ \A b \in AlertBits :
            (HasBit(config, b) /\ ~HasBit(config', b) /\ ~Convert) =>
                /\ alert_status
                /\ ret'.val[IF b = 4 THEN 1 ELSE 2] ]_vars

=============================================================================
